---- MODULE Spec2Model ----
(***************************************************************************)
(* NFC Contact Manager (backend/server.py): contacts kept in a MongoDB     *)
(* collection, each rendered on demand as a vCard block whose UTF-8 size   *)
(* must fit an NFC 215 tag.                                                *)
(*                                                                         *)
(* A Python str is modelled as the sequence of its Unicode code points, a  *)
(* bytes object as the sequence of its byte values 0..255.                 *)
(*                                                                         *)
(* Each call on contacts_collection is one atomic step of the store.  A    *)
(* handler that makes one such call is one action; update_contact makes    *)
(* three (find_one, update_one, find_one), so requests served by other     *)
(* workers on the same database can fall between them: it is the actions   *)
(* update_contact, update_contact_write and update_contact_return.         *)
(*                                                                         *)
(* uuid4() returns an id it has not returned before.  The store is always  *)
(* reachable, so a handler's "except Exception" branch is taken only when  *)
(* the handler's own code raises.  Code points are not surrogates.         *)
(***************************************************************************)
EXTENDS Integers, Sequences, FiniteSets

(***************************************************************************)
(* Text helpers                                                            *)
(***************************************************************************)

\* n copies of the code point c (c * n in Python)
RECURSIVE Rep(_, _)
Rep(c, n) ==
    IF n = 0 THEN <<>>
    ELSE IF n = 1 THEN <<c>>
    ELSE LET half == Rep(c, n \div 2)
         IN  half \o half \o (IF n % 2 = 1 THEN <<c>> ELSE <<>>)

\* the sequence f as a tuple
AsTuple(f) == SubSeq(f, 1, Len(f))

\* "\n" inside the triple-quoted f-string
NL == <<10>>

\* the literal parts of the f-string of generate_ndef_record
TagBegin   == <<66, 69, 71, 73, 78, 58, 86, 67, 65, 82, 68>>
TagVersion == <<86, 69, 82, 83, 73, 79, 78, 58, 51, 46, 48>>
TagFN      == <<70, 78, 58>>
TagTEL     == <<84, 69, 76, 58>>
TagNOTE    == <<78, 79, 84, 69, 58>>
TagEnd     == <<69, 78, 68, 58, 86, 67, 65, 82, 68>>

\* the code points str.strip() removes
IsSpace(c) == c \in ((9..13) \cup (28..32) \cup {133, 160, 5760, 8232, 8233, 8239, 8287, 12288}
                     \cup (8192..8202))

RECURSIVE LStrip(_)
LStrip(s) == IF s # <<>> /\ IsSpace(Head(s)) THEN LStrip(Tail(s)) ELSE s

RECURSIVE RStrip(_)
RStrip(s) == IF s # <<>> /\ IsSpace(s[Len(s)]) THEN RStrip(SubSeq(s, 1, Len(s) - 1)) ELSE s

\* str.strip()
Strip(s) == RStrip(LStrip(s))

\* one code point as UTF-8 (str.encode('utf-8')), surrogates excluded
UTF8Char(c) ==
    IF c < 128 THEN <<c>>
    ELSE IF c < 2048 THEN <<192 + (c \div 64), 128 + (c % 64)>>
    ELSE IF c < 65536 THEN <<224 + (c \div 4096), 128 + ((c \div 64) % 64), 128 + (c % 64)>>
    ELSE <<240 + (c \div 262144), 128 + ((c \div 4096) % 64),
           128 + ((c \div 64) % 64), 128 + (c % 64)>>

\* the encodings of s[lo..hi] in order (by halves, so that long texts stay shallow)
RECURSIVE EncodeRange(_, _, _)
EncodeRange(s, lo, hi) ==
    IF lo > hi THEN <<>>
    ELSE IF lo = hi THEN UTF8Char(s[lo])
    ELSE LET mid == (lo + hi) \div 2
         IN  EncodeRange(s, lo, mid) \o EncodeRange(s, mid + 1, hi)

\* str.encode('utf-8')
EncodeUTF8(s) == EncodeRange(s, 1, Len(s))

\* the Base64 alphabet: sextet -> ASCII code
B64Char(v) ==
    IF v < 26 THEN 65 + v
    ELSE IF v < 52 THEN 97 + (v - 26)
    ELSE IF v < 62 THEN 48 + (v - 52)
    ELSE IF v = 62 THEN 43 ELSE 47

\* ASCII code -> sextet ('=' counts as 0)
B64Val(c) ==
    IF c >= 65 /\ c <= 90 THEN c - 65
    ELSE IF c >= 97 /\ c <= 122 THEN c - 97 + 26
    ELSE IF c >= 48 /\ c <= 57 THEN c - 48 + 52
    ELSE IF c = 43 THEN 62
    ELSE IF c = 47 THEN 63 ELSE 0

Pow(b, e) == IF e = 0 THEN 1 ELSE IF e = 1 THEN b ELSE IF e = 2 THEN b * b ELSE b * b * b

ByteAt(b, i) == IF i <= Len(b) THEN b[i] ELSE 0

\* Base64 without the '=' padding
B64EncodeNoPad(b) ==
    LET n == Len(b)
        full == n \div 3
        rest == n % 3
        len == 4 * full + (IF rest = 0 THEN 0 ELSE rest + 1)
    IN  AsTuple([k \in 1..len |->
            LET g == (k - 1) \div 4
                j == (k - 1) % 4
                v == ByteAt(b, 3 * g + 1) * 65536 + ByteAt(b, 3 * g + 2) * 256
                     + ByteAt(b, 3 * g + 3)
            IN  B64Char((v \div Pow(64, 3 - j)) % 64)])

\* base64.b64encode(b).decode('utf-8'): every 3 bytes give 4 characters, '=' pads the
\* last group
B64Encode(b) ==
    LET n == Len(b)
        groups == (n + 2) \div 3
    IN  AsTuple([k \in 1..(4 * groups) |->
            LET g == (k - 1) \div 4
                j == (k - 1) % 4
                avail == IF n - 3 * g >= 3 THEN 3 ELSE n - 3 * g
                v == ByteAt(b, 3 * g + 1) * 65536 + ByteAt(b, 3 * g + 2) * 256
                     + ByteAt(b, 3 * g + 3)
            IN  IF j > avail THEN 61 ELSE B64Char((v \div Pow(64, 3 - j)) % 64)])

\* base64.b64decode(s) of a padded Base64 text
B64Decode(s) ==
    LET n == Len(s)
        pad == IF n >= 2 /\ s[n] = 61 /\ s[n - 1] = 61 THEN 2
               ELSE IF n >= 1 /\ s[n] = 61 THEN 1 ELSE 0
        len == 3 * (n \div 4) - pad
    IN  AsTuple([i \in 1..len |->
            LET g == (i - 1) \div 3
                j == (i - 1) % 3
                v == B64Val(s[4 * g + 1]) * 262144 + B64Val(s[4 * g + 2]) * 4096
                     + B64Val(s[4 * g + 3]) * 64 + B64Val(s[4 * g + 4])
            IN  (v \div Pow(256, 2 - j)) % 256])

(***************************************************************************)
(* Program constants                                                       *)
(***************************************************************************)

\* Contact.phone_number: Field(..., min_length=1, max_length=20)
PhoneMinLen == 1
PhoneMaxLen == 20
\* Contact.text: Field(..., max_length=100)
TextMaxLen == 100
\* Contact.name: Field(default="", max_length=50)
NameMaxLen == 50
\* the NFC 215 capacity the write handlers compare size_bytes with
NFC215Limit == 504

(***************************************************************************)
(* generate_ndef_record                                                    *)
(***************************************************************************)

\* the f-string with FN:{name}, without the fallback
VCardBlockNoFallback(phone_number, text, name) ==
    TagBegin \o NL \o TagVersion \o NL
    \o TagFN \o name \o NL
    \o TagTEL \o phone_number \o NL
    \o TagNOTE \o text \o NL
    \o TagEnd

\* the f-string: six lines, name falling back to phone_number when falsy
VCardBlock(phone_number, text, name) ==
    TagBegin \o NL \o TagVersion \o NL
    \o TagFN \o (IF name # <<>> THEN name ELSE phone_number) \o NL
    \o TagTEL \o phone_number \o NL
    \o TagNOTE \o text \o NL
    \o TagEnd

\* generate_ndef_record with "size_bytes": len(vcard_data), the character count
generate_ndef_record_char_size(phone_number, text, name) ==
    LET vcard_data == Strip(VCardBlock(phone_number, text, name))
        encoded == EncodeUTF8(vcard_data)
    IN  [type |-> "text/vcard",
         payload |-> vcard_data,
         payload_base64 |-> B64Encode(encoded),
         size_bytes |-> Len(vcard_data)]

generate_ndef_record(phone_number, text, name) ==
    LET vcard_data == Strip(VCardBlock(phone_number, text, name))
        encoded == EncodeUTF8(vcard_data)
    IN  [type |-> "text/vcard",
         payload |-> vcard_data,
         payload_base64 |-> B64Encode(encoded),
         size_bytes |-> Len(encoded)]

\* the size check of the write handlers: ndef_data["size_bytes"] > 504
TooLargeByChars(ndef_data) == Len(ndef_data.payload) > NFC215Limit

TooLarge(ndef_data) == ndef_data.size_bytes > NFC215Limit

(***************************************************************************)
(* Request bodies and the Contact model                                    *)
(***************************************************************************)

\* a JSON field of a request body: a string, null, or not present
Str(v)  == [kind |-> "str", v |-> v]
Null    == [kind |-> "null", v |-> <<>>]
Missing == [kind |-> "missing", v |-> <<>>]

Body(p, t, n) == [phone_number |-> p, text |-> t, name |-> n]

\* Contact without max_length on text
ContactValidNoTextLimit(body) ==
    /\ body.phone_number.kind = "str"
    /\ Len(body.phone_number.v) >= PhoneMinLen
    /\ Len(body.phone_number.v) <= PhoneMaxLen
    /\ body.text.kind = "str"
    /\ body.name.kind = "str" => Len(body.name.v) <= NameMaxLen

\* pydantic's validation of a body against Contact (what FastAPI runs before the
\* handler; a failure is the 422 response)
ContactValid(body) ==
    /\ body.phone_number.kind = "str"
    /\ Len(body.phone_number.v) >= PhoneMinLen
    /\ Len(body.phone_number.v) <= PhoneMaxLen
    /\ body.text.kind = "str"
    /\ Len(body.text.v) <= TextMaxLen
    /\ body.name.kind = "str" => Len(body.name.v) <= NameMaxLen

\* contact.name or "" (name is None for null, the default "" when missing)
NameOrEmpty(body) == IF body.name.kind = "str" THEN body.name.v ELSE <<>>

(***************************************************************************)
(* Bounds of the model                                                     *)
(***************************************************************************)

\* the requests clients send in one run
MaxRequests == 3
\* the values uuid4() can return
MaxIds == 2
\* the readings datetime.utcnow() can give are 0..MaxClock
MaxClock == 1

Ids == 1..MaxIds

(***************************************************************************)
(* The strings clients send                                                *)
(***************************************************************************)

\* "+49"
PhonePlain == <<43, 52, 57>>
\* 21 digits: one more than phone_number allows
PhoneTooLong == Rep(49, PhoneMaxLen + 1)
\* "Hi"
TextPlain == <<72, 105>>
\* "Grüße": 5 characters, 7 bytes
TextUmlaut == <<71, 114, 252, 223, 101>>
\* 100 four-byte characters (U+1F600): 100 characters, 400 bytes
TextWide == Rep(128512, TextMaxLen)
\* "A" * 101 of test_create_contact_too_large
TextTooLong == Rep(65, TextMaxLen + 1)
\* 101 four-byte characters
TextTooLongWide == Rep(128512, TextMaxLen + 1)
\* "Müller"
NameUmlaut == <<77, 252, 108, 108, 101, 114>>
\* 13 four-byte characters and "a": 53 bytes, the block with PhonePlain and TextWide
\* is 504 bytes
NameFits == Rep(128512, 13) \o <<97>>
\* one byte more: the block is 505 bytes
NameOver == Rep(128512, 13) \o <<97, 97>>
\* 50 four-byte characters
NameWide == Rep(128512, NameMaxLen)
\* 51 characters: one more than name allows
NameTooLong == Rep(97, NameMaxLen + 1)

\* the request bodies of create
Bodies ==
    { Body(Str(PhonePlain), Str(TextPlain), Missing),
      Body(Str(PhonePlain), Str(TextUmlaut), Str(NameUmlaut)),
      Body(Str(PhonePlain), Str(TextWide), Str(NameFits)),
      Body(Str(PhonePlain), Str(TextWide), Str(NameOver)),
      Body(Str(PhonePlain), Str(TextTooLong), Str(NameUmlaut)),
      Body(Str(PhonePlain), Str(TextTooLongWide), Str(NameWide)),
      Body(Str(PhonePlain), Str(TextPlain), Str(NameTooLong)),
      Body(Str(PhoneTooLong), Str(TextPlain), Str(<<>>)),
      Body(Str(<<>>), Str(TextPlain), Str(NameUmlaut)),
      Body(Missing, Missing, Str(NameUmlaut)) }

\* the request bodies of update
UpdateBodies ==
    { Body(Str(PhonePlain), Str(TextPlain), Missing),
      Body(Str(PhonePlain), Str(TextWide), Str(NameFits)),
      Body(Str(PhonePlain), Str(TextWide), Str(NameOver)),
      Body(Str(PhonePlain), Str(TextTooLongWide), Str(NameWide)) }

\* documents the collection can hold before the service starts
\* a document written under wider limits: its block is 655 bytes
LegacyLarge ==
    [id |-> 1, phone_number |-> PhonePlain, text |-> TextTooLongWide, name |-> NameWide,
     created_at |-> 0, updated_at |-> 0]

\* a document written without a name
LegacyNoName ==
    [id |-> 2, phone_number |-> PhonePlain, text |-> TextUmlaut,
     created_at |-> 0, updated_at |-> 0]

\* contact.get("name", "")
GetName(doc) == IF "name" \in DOMAIN doc THEN doc.name ELSE <<>>

\* the arguments the handlers of this model can pass to generate_ndef_record
KnownArgs ==
    {<<b.phone_number.v, b.text.v, NameOrEmpty(b)>> :
        b \in {c \in Bodies \cup UpdateBodies : ContactValid(c)}}
    \cup {<<d.phone_number, d.text, GetName(d)>> : d \in {LegacyLarge, LegacyNoName}}

\* generate_ndef_record on those arguments, evaluated once
Rendered ==
    {[args |-> a, ndef_record |-> generate_ndef_record(a[1], a[2], a[3])] : a \in KnownArgs}

\* a handler's call generate_ndef_record(phone_number, text, name)
call_generate_ndef_record(phone_number, text, name) ==
    IF <<phone_number, text, name>> \in KnownArgs
    THEN (CHOOSE r \in Rendered : r.args = <<phone_number, text, name>>).ndef_record
    ELSE generate_ndef_record(phone_number, text, name)

(***************************************************************************)
(* The contacts collection                                                 *)
(***************************************************************************)

\* Python's None
None == [none |-> TRUE]

\* the positions of the documents of coll that match {"id": id}
Matching(coll, id) == {i \in 1..Len(coll) : coll[i].id = id}

First(S) == CHOOSE i \in S : \A j \in S : i <= j

\* find_one() without its filter: the first document of the collection
find_one_unfiltered(coll, id) == IF Len(coll) = 0 THEN None ELSE coll[1]

\* contacts_collection.find_one({"id": id})
find_one(coll, id) ==
    IF Matching(coll, id) = {} THEN None ELSE coll[First(Matching(coll, id))]

\* contacts_collection.insert_one(doc)
insert_one(coll, doc) == Append(coll, doc)

\* a $set that also restamps created_at
SetFieldsAndCreated(doc, fields) ==
    [k \in DOMAIN doc \cup DOMAIN fields |->
        IF k = "created_at" THEN fields.updated_at
        ELSE IF k \in DOMAIN fields THEN fields[k] ELSE doc[k]]

\* a $set written without its name key
SetFieldsNoName(doc, fields) ==
    [k \in DOMAIN doc \cup DOMAIN fields |->
        IF k \in DOMAIN fields /\ k # "name" THEN fields[k] ELSE doc[k]]

\* a document after {"$set": fields}
SetFields(doc, fields) ==
    [k \in DOMAIN doc \cup DOMAIN fields |-> IF k \in DOMAIN fields THEN fields[k] ELSE doc[k]]

\* update_one called with upsert=True: without a match it inserts the filter's id with
\* the fields
update_one_upsert(coll, id, fields) ==
    IF Matching(coll, id) = {}
    THEN Append(coll, [k \in {"id"} \cup DOMAIN fields |-> IF k = "id" THEN id ELSE fields[k]])
    ELSE [coll EXCEPT ![First(Matching(coll, id))] = SetFields(@, fields)]

\* contacts_collection.update_one({"id": id}, {"$set": fields}): the first match, if any
update_one(coll, id, fields) ==
    IF Matching(coll, id) = {} THEN coll
    ELSE [coll EXCEPT ![First(Matching(coll, id))] = SetFields(@, fields)]

\* contacts_collection.delete_one({"id": id}): the collection afterwards
delete_one(coll, id) ==
    IF Matching(coll, id) = {} THEN coll
    ELSE LET i == First(Matching(coll, id))
         IN  SubSeq(coll, 1, i - 1) \o SubSeq(coll, i + 1, Len(coll))

\* result.acknowledged taken for the count
deleted_count_acknowledged(coll, id) == 1

\* result.deleted_count
deleted_count(coll, id) == IF Matching(coll, id) = {} THEN 0 ELSE 1

\* the orders find().sort("created_at", -1) can return: newest first, ties in any order
SortedOrders(coll) ==
    {p \in [1..Len(coll) -> 1..Len(coll)] :
        /\ \A i, j \in 1..Len(coll) : i # j => p[i] # p[j]
        /\ \A i, j \in 1..Len(coll) : i < j => coll[p[i]].created_at >= coll[p[j]].created_at}

(***************************************************************************)
(* State                                                                   *)
(***************************************************************************)

VARIABLES
    store,        \* contacts_collection: the documents in insertion order
    issued,       \* the ids uuid4() has returned so far
    clock,        \* the latest reading of datetime.utcnow()
    inflight,     \* update_contact requests between their store operations
    nreq,         \* the requests received so far
    last,         \* the response sent most recently
    args,         \* the formatter alone: the validated contact it is called with
    ndef_record   \* the formatter alone: the record it returned

vars == <<store, issued, clock, inflight, nreq, last, args, ndef_record>>

NoBody == Body(Missing, Missing, Missing)

\* a response: the request it answers (rid, op, id, req) and what the client receives
Response(rid, op, id, req, status, body) ==
    [rid |-> rid, op |-> op, id |-> id, req |-> req, status |-> status, body |-> body]

\* HTTPException(status_code, detail) and FastAPI's 422
Error(detail) == [detail |-> detail]

\* the ContactResponse of a document and its rendering
ContactResponse(doc, name, ndef_data) ==
    [id |-> doc.id,
     phone_number |-> doc.phone_number,
     text |-> doc.text,
     name |-> name,
     created_at |-> doc.created_at,
     updated_at |-> doc.updated_at,
     ndef_data |-> ndef_data.payload_base64,
     data_size |-> ndef_data.size_bytes]

\* a request arrives and is numbered
Received == nreq < MaxRequests /\ nreq' = nreq + 1

\* the readings datetime.utcnow() can give now: the latest one again or a later one
\* (readings are only compared, so one tick stands for any advance)
utcnow == {t \in {clock, clock + 1} : t <= MaxClock}

(***************************************************************************)
(* Handlers                                                                *)
(***************************************************************************)

\* GET /
root ==
    /\ Received
    /\ last' = Response(nreq', "root", 0, NoBody, 200,
                        [message |-> "NFC Contact Manager API", status |-> "running"])
    /\ UNCHANGED <<store, issued, clock, inflight, args, ndef_record>>

\* GET /api/contacts
get_contacts ==
    /\ Received
    /\ \E p \in SortedOrders(store) :
          last' = Response(nreq', "get_contacts", 0, NoBody, 200,
                     [i \in 1..Len(store) |->
                         LET contact == store[p[i]]
                         IN  ContactResponse(contact, GetName(contact),
                                call_generate_ndef_record(contact.phone_number, contact.text,
                                                     GetName(contact)))])
    /\ UNCHANGED <<store, issued, clock, inflight, args, ndef_record>>

\* create_contact with insert_one moved before the size check
create_contact_insert_first(contact) ==
    /\ Received
    /\ IF ~ContactValid(contact)
       THEN /\ last' = Response(nreq', "create_contact", 0, contact, 422, Error("validation"))
            /\ UNCHANGED <<store, issued, clock>>
       ELSE LET ndef_data == call_generate_ndef_record(contact.phone_number.v, contact.text.v,
                                                       NameOrEmpty(contact))
            IN  \E contact_id \in Ids \ issued, now \in utcnow :
                  LET contact_doc == [id |-> contact_id,
                                      phone_number |-> contact.phone_number.v,
                                      text |-> contact.text.v,
                                      name |-> NameOrEmpty(contact),
                                      created_at |-> now,
                                      updated_at |-> now]
                  IN  /\ issued' = issued \cup {contact_id}
                      /\ clock' = now
                      /\ store' = insert_one(store, contact_doc)
                      /\ last' = IF TooLarge(ndef_data)
                                 THEN Response(nreq', "create_contact", 0, contact, 400,
                                               Error("Data too large for NFC 215 tag"))
                                 ELSE Response(nreq', "create_contact", contact_id, contact, 200,
                                               ContactResponse(contact_doc,
                                                               NameOrEmpty(contact), ndef_data))
    /\ UNCHANGED <<inflight, args, ndef_record>>

\* POST /api/contacts
create_contact(contact) ==
    /\ Received
    /\ IF ~ContactValid(contact)
       THEN /\ last' = Response(nreq', "create_contact", 0, contact, 422, Error("validation"))
            /\ UNCHANGED <<store, issued, clock>>
       ELSE LET ndef_data == call_generate_ndef_record(contact.phone_number.v, contact.text.v,
                                                  NameOrEmpty(contact))
            IN  \E contact_id \in Ids \ issued, now \in utcnow :
                  LET contact_doc == [id |-> contact_id,
                                      phone_number |-> contact.phone_number.v,
                                      text |-> contact.text.v,
                                      name |-> NameOrEmpty(contact),
                                      created_at |-> now,
                                      updated_at |-> now]
                  IN  /\ issued' = issued \cup {contact_id}
                      /\ clock' = now
                      /\ IF TooLarge(ndef_data)
                         THEN /\ last' = Response(nreq', "create_contact", 0, contact, 400,
                                             Error("Data too large for NFC 215 tag"))
                              /\ store' = store
                         ELSE /\ store' = insert_one(store, contact_doc)
                              /\ last' = Response(nreq', "create_contact", contact_id, contact, 200,
                                             ContactResponse(contact_doc,
                                                             NameOrEmpty(contact), ndef_data))
    /\ UNCHANGED <<inflight, args, ndef_record>>

\* PUT /api/contacts/{contact_id}, up to the call of update_one
update_contact(contact_id, contact) ==
    /\ Received
    /\ IF ~ContactValid(contact)
       THEN /\ last' = Response(nreq', "update_contact", contact_id, contact, 422,
                           Error("validation"))
            /\ UNCHANGED <<clock, inflight>>
       ELSE IF find_one(store, contact_id) = None
       THEN /\ last' = Response(nreq', "update_contact", contact_id, contact, 404,
                           Error("Contact not found"))
            /\ UNCHANGED <<clock, inflight>>
       ELSE LET ndef_data == call_generate_ndef_record(contact.phone_number.v, contact.text.v,
                                                  NameOrEmpty(contact))
            IN  IF TooLarge(ndef_data)
                THEN /\ last' = Response(nreq', "update_contact", contact_id, contact, 400,
                                    Error("Data too large for NFC 215 tag"))
                     /\ UNCHANGED <<clock, inflight>>
                ELSE \E now \in utcnow :
                       /\ clock' = now
                       /\ inflight' = inflight \cup
                             {[rid |-> nreq',
                               contact_id |-> contact_id,
                               contact |-> contact,
                               ndef_data |-> ndef_data,
                               updated_doc |-> [phone_number |-> contact.phone_number.v,
                                                text |-> contact.text.v,
                                                name |-> NameOrEmpty(contact),
                                                updated_at |-> now],
                               pc |-> "update_one"]}
                       /\ last' = last
    /\ UNCHANGED <<store, issued, args, ndef_record>>

\* update_contact: contacts_collection.update_one
update_contact_write(r) ==
    /\ r.pc = "update_one"
    /\ store' = update_one(store, r.contact_id, r.updated_doc)
    /\ inflight' = (inflight \ {r}) \cup {[r EXCEPT !.pc = "find_one"]}
    /\ UNCHANGED <<issued, clock, nreq, last, args, ndef_record>>

\* update_contact: the second find_one and the response; subscripting None raises
\* TypeError, which the handler turns into a 500
update_contact_return(r) ==
    /\ r.pc = "find_one"
    /\ LET updated_contact == find_one(store, r.contact_id)
       IN  last' = IF updated_contact = None
                   THEN Response(r.rid, "update_contact", r.contact_id, r.contact, 500,
                                 Error("Error updating contact"))
                   ELSE Response(r.rid, "update_contact", r.contact_id, r.contact, 200,
                                 ContactResponse(updated_contact, updated_contact.name,
                                                 r.ndef_data))
    /\ inflight' = inflight \ {r}
    /\ UNCHANGED <<store, issued, clock, nreq, args, ndef_record>>

\* DELETE /api/contacts/{contact_id}
delete_contact(contact_id) ==
    /\ Received
    /\ store' = delete_one(store, contact_id)
    /\ last' = IF deleted_count(store, contact_id) = 0
               THEN Response(nreq', "delete_contact", contact_id, NoBody, 404,
                             Error("Contact not found"))
               ELSE Response(nreq', "delete_contact", contact_id, NoBody, 200,
                             [message |-> "Contact deleted successfully"])
    /\ UNCHANGED <<issued, clock, inflight, args, ndef_record>>

\* get_contact_ndef with the size check of the write handlers added
get_contact_ndef_checked(contact_id) ==
    /\ Received
    /\ LET contact == find_one(store, contact_id)
       IN  last' = IF contact = None
                   THEN Response(nreq', "get_contact_ndef", contact_id, NoBody, 404,
                                 Error("Contact not found"))
                   ELSE LET ndef_data == call_generate_ndef_record(contact.phone_number,
                                             contact.text, GetName(contact))
                        IN  IF TooLarge(ndef_data)
                            THEN Response(nreq', "get_contact_ndef", contact_id, NoBody, 400,
                                          Error("Data too large for NFC 215 tag"))
                            ELSE Response(nreq', "get_contact_ndef", contact_id, NoBody, 200,
                                    [contact_id |-> contact_id,
                                     ndef_record |-> ndef_data,
                                     instructions |->
                                        [nfc_215_compatible |->
                                            ndef_data.size_bytes <= NFC215Limit]])
    /\ UNCHANGED <<store, issued, clock, inflight, args, ndef_record>>

\* GET /api/contacts/{contact_id}/ndef
get_contact_ndef(contact_id) ==
    /\ Received
    /\ LET contact == find_one(store, contact_id)
       IN  last' = IF contact = None
                   THEN Response(nreq', "get_contact_ndef", contact_id, NoBody, 404,
                                 Error("Contact not found"))
                   ELSE LET ndef_data == call_generate_ndef_record(contact.phone_number,
                                             contact.text, GetName(contact))
                        IN  Response(nreq', "get_contact_ndef", contact_id, NoBody, 200,
                               [contact_id |-> contact_id,
                                ndef_record |-> ndef_data,
                                instructions |->
                                   [nfc_215_compatible |->
                                       ndef_data.size_bytes <= NFC215Limit]])
    /\ UNCHANGED <<store, issued, clock, inflight, args, ndef_record>>

(***************************************************************************)
(* Specification: the service on an empty collection                       *)
(***************************************************************************)

NoArgs == NoBody

NoResponse == Response(0, "none", 0, NoBody, 0, Error("none"))

Init ==
    /\ store = <<>>
    /\ issued = {}
    /\ clock = 0
    /\ inflight = {}
    /\ nreq = 0
    /\ last = NoResponse
    /\ args = NoArgs
    /\ ndef_record = None

\* one step of the service, the write requests carrying bodies of these sets
Step(creates, updates) ==
    \/ root
    \/ get_contacts
    \/ \E contact \in creates : create_contact(contact)
    \/ \E contact_id \in Ids, contact \in updates : update_contact(contact_id, contact)
    \/ \E r \in inflight : update_contact_write(r)
    \/ \E r \in inflight : update_contact_return(r)
    \/ \E contact_id \in Ids : delete_contact(contact_id)
    \/ \E contact_id \in Ids : get_contact_ndef(contact_id)

Next == Step(Bodies, UpdateBodies)

Spec == Init /\ [][Next]_vars

(***************************************************************************)
(* Specification: the service on a collection that already holds documents *)
(* (the database outlives the process)                                     *)
(***************************************************************************)

SeedStores == {<<LegacyLarge>>, <<LegacyNoName, LegacyLarge>>}

InitSeeded ==
    /\ store \in SeedStores
    /\ issued = {store[i].id : i \in 1..Len(store)}
    /\ clock = 0
    /\ inflight = {}
    /\ nreq = 0
    /\ last = NoResponse
    /\ args = NoArgs
    /\ ndef_record = None

\* the bodies written while the stored documents are read
SeededBodies ==
    { Body(Str(PhonePlain), Str(TextPlain), Missing),
      Body(Str(PhonePlain), Str(TextTooLong), Str(NameUmlaut)) }

NextSeeded == Step(SeededBodies, SeededBodies)

SpecSeeded == InitSeeded /\ [][NextSeeded]_vars

(***************************************************************************)
(* Specification: the formatter on its own                                 *)
(***************************************************************************)

\* "+49 123 456789"
PhoneTest == <<43, 52, 57, 32, 49, 50, 51, 32, 52, 53, 54, 55, 56, 57>>
\* "Test"
TextTest == <<84, 101, 115, 116>>
\* "Test Kontakt"
NameTest == <<84, 101, 115, 116, 32, 75, 111, 110, 116, 97, 107, 116>>
\* "a\nb;c,\\": a line break and the characters vCard reserves
TextReserved == <<97, 10, 98, 59, 99, 44, 92>>
\* the euro sign: one character, three bytes
Euro == <<8364>>

FmtPhones == {PhonePlain, PhoneTest, Euro, Rep(128512, PhoneMaxLen)}
FmtTexts == {<<>>, TextPlain, TextTest, TextUmlaut, TextReserved, TextWide}
FmtNames == {Missing, Null, Str(<<>>), Str(<<32>>), Str(NameUmlaut), Str(NameTest),
             Str(NameWide)}

InitFmt ==
    /\ store = <<>>
    /\ issued = {}
    /\ clock = 0
    /\ inflight = {}
    /\ nreq = 0
    /\ last = NoResponse
    /\ \E p \in FmtPhones, t \in FmtTexts, n \in FmtNames : args = Body(Str(p), Str(t), n)
    /\ ndef_record = None

\* the call the handlers make on a validated contact:
\* generate_ndef_record(contact.phone_number, contact.text, contact.name or "")
render ==
    /\ ndef_record = None
    /\ ContactValid(args)
    /\ ndef_record' = generate_ndef_record(args.phone_number.v, args.text.v, NameOrEmpty(args))
    /\ UNCHANGED <<store, issued, clock, inflight, nreq, last, args>>

SpecFmt == InitFmt /\ [][render]_vars

(***************************************************************************)
(* Specification: two stored contacts, updates of the first racing each    *)
(* other and the deletes of both (several workers on one database)         *)
(***************************************************************************)

\* the bodies the concurrent writers send: they differ in every field
ConcurrentBodies ==
    { Body(Str(PhonePlain), Str(TextPlain), Missing),
      Body(Str(PhoneTest), Str(TextTest), Str(NameTest)) }

\* what create_contact stored for a body under this id
Created(contact_id, contact) ==
    [id |-> contact_id,
     phone_number |-> contact.phone_number.v,
     text |-> contact.text.v,
     name |-> NameOrEmpty(contact),
     created_at |-> 0,
     updated_at |-> 0]

\* the collection after two creates
CreatedStores ==
    {<<Created(1, Body(Str(PhonePlain), Str(TextPlain), Missing)),
       Created(2, Body(Str(PhoneTest), Str(TextTest), Str(NameTest)))>>}

InitConcurrent ==
    /\ store \in CreatedStores
    /\ issued = {store[i].id : i \in 1..Len(store)}
    /\ clock = 0
    /\ inflight = {}
    /\ nreq = 0
    /\ last = NoResponse
    /\ args = NoArgs
    /\ ndef_record = None

NextConcurrent ==
    \/ \E contact \in ConcurrentBodies : update_contact(1, contact)
    \/ \E r \in inflight : update_contact_write(r)
    \/ \E r \in inflight : update_contact_return(r)
    \/ \E contact_id \in Ids : delete_contact(contact_id)

SpecConcurrent == InitConcurrent /\ [][NextConcurrent]_vars

(***************************************************************************)
(* Measures used by the properties, written without the model's encoder    *)
(***************************************************************************)

\* how many code points of s are at least lim
CountFrom(s, lim) == Cardinality({i \in 1..Len(s) : s[i] >= lim})

\* the UTF-8 length of s: one byte per code point, one more from U+0080, U+0800, U+10000
UTF8Len(s) == Len(s) + CountFrom(s, 128) + CountFrom(s, 2048) + CountFrom(s, 65536)

\* s has a character that takes more than one byte
HasMultiByte(s) == \E i \in 1..Len(s) : s[i] >= 128

\* lines joined by single newlines
RECURSIVE JoinLines(_)
JoinLines(lines) ==
    IF Len(lines) = 1 THEN lines[1] ELSE lines[1] \o <<10>> \o JoinLines(Tail(lines))

DisplayName(phone_number, name) == IF Len(name) > 0 THEN name ELSE phone_number

\* BEGIN:VCARD / VERSION:3.0 / FN:<displayName> / TEL:<phone_number> / NOTE:<text> / END:VCARD
SixLines(phone_number, text, name) ==
    JoinLines(<< <<66, 69, 71, 73, 78, 58, 86, 67, 65, 82, 68>>,
                 <<86, 69, 82, 83, 73, 79, 78, 58, 51, 46, 48>>,
                 <<70, 78, 58>> \o DisplayName(phone_number, name),
                 <<84, 69, 76, 58>> \o phone_number,
                 <<78, 79, 84, 69, 58>> \o text,
                 <<69, 78, 68, 58, 86, 67, 65, 82, 68>> >>)

\* the bytes of the six lines: 48 for tags and newlines, plus the three values
BlockBytes(phone_number, text, name) ==
    48 + UTF8Len(DisplayName(phone_number, name)) + UTF8Len(phone_number) + UTF8Len(text)

\* the same for a validated request body
ReqBytes(req) == BlockBytes(req.phone_number.v, req.text.v, req.name.v)

\* the body has phone_number and text as strings, phone_number of 1 to 20 characters,
\* text of at most 100 and name (when given) of at most 50
WithinFieldLimits(req) ==
    /\ req.phone_number.kind = "str"
    /\ req.text.kind = "str"
    /\ Len(req.phone_number.v) \in 1..20
    /\ Len(req.text.v) \in 0..100
    /\ Len(req.name.v) \in 0..50

\* some stored contact has this id
InStore(id) == \E i \in 1..Len(store) : store[i].id = id

\* this step answers a request in the step that receives it
Answers(op) == nreq' = nreq + 1 /\ last'.rid = nreq' /\ last'.op = op

\* the collection without the documents of this id
Without(coll, id) == SelectSeq(coll, LAMBDA d : d.id # id)

(***************************************************************************)
(* C1                                                                      *)
(***************************************************************************)

\* C1: from an empty collection, under every interleaving of create, update and delete,
\* the vCard block rendered from any stored contact is at most 504 UTF-8 bytes long.
C1_StoredPayloadFits ==
    \A i \in 1..Len(store) :
        UTF8Len(call_generate_ndef_record(store[i].phone_number, store[i].text,
                                          GetName(store[i])).payload) <= 504

\* a contact of exactly 504 bytes is stored and a larger one has just been refused
C1_Witness ==
    /\ \E i \in 1..Len(store) :
          BlockBytes(store[i].phone_number, store[i].text, GetName(store[i])) = 504
    /\ last.status = 400

(***************************************************************************)
(* C2                                                                      *)
(***************************************************************************)

\* C2 as stated: a create or update request whose fields are valid and whose block is
\* over 504 bytes is answered 400 and leaves the collection as it was.
C2_Original ==
    [][\A op \in {"create_contact", "update_contact"} :
          (Answers(op) /\ WithinFieldLimits(last'.req) /\ ReqBytes(last'.req) > 504)
              => (last'.status = 400 /\ store' = store)]_vars

\* C2: a create request, or an update request for a stored id, whose fields are valid
\* and whose block is over 504 bytes is answered 400 and leaves the collection as it
\* was (no document inserted, no field of the target changed, updated_at included).
C2_SizeRejected ==
    [][\A op \in {"create_contact", "update_contact"} :
          (/\ Answers(op)
           /\ WithinFieldLimits(last'.req)
           /\ ReqBytes(last'.req) > 504
           /\ op = "update_contact" => InStore(last'.id))
              => (last'.status = 400 /\ store' = store)]_vars

\* an update of a stored contact refused for one byte too many
C2_Witness ==
    /\ last.op = "update_contact"
    /\ last.status = 400
    /\ InStore(last.id)
    /\ WithinFieldLimits(last.req)
    /\ ReqBytes(last.req) = 505

(***************************************************************************)
(* C3                                                                      *)
(***************************************************************************)

\* C3 as stated: an update request for an id no stored contact has is answered 404 and
\* leaves the collection as it was.
C3_Original ==
    [][(Answers("update_contact") /\ ~InStore(last'.id))
          => (last'.status = 404 /\ store' = store)]_vars

\* C3: an update request with a valid body for an id no stored contact has is answered
\* 404 and leaves the collection as it was.
C3_NotFound ==
    [][(Answers("update_contact") /\ ~InStore(last'.id) /\ WithinFieldLimits(last'.req))
          => (last'.status = 404 /\ store' = store)]_vars

\* an update answered 404 while the collection holds another contact
C3_Witness ==
    /\ last.op = "update_contact"
    /\ last.status = 404
    /\ ~InStore(last.id)
    /\ Len(store) > 0

(***************************************************************************)
(* C4                                                                      *)
(***************************************************************************)

\* C4: a delete of an id that is not stored is answered 404 and changes nothing; a
\* delete of a stored id is answered 200 and removes that contact and no other; a
\* delete that follows a successful delete of the same id is answered 404.
C4_Delete ==
    [][Answers("delete_contact") =>
          /\ IF InStore(last'.id)
             THEN /\ last'.status = 200
                  /\ store' = Without(store, last'.id)
                  /\ Len(store') = Len(store) - 1
             ELSE /\ last'.status = 404
                  /\ store' = store
          /\ (last.op = "delete_contact" /\ last.status = 200 /\ last.id = last'.id)
                => last'.status = 404]_vars

\* a successful delete that left the other contact in place
C4_Witness ==
    /\ last.op = "delete_contact"
    /\ last.status = 200
    /\ Len(store) = 1
    /\ ~InStore(last.id)

(***************************************************************************)
(* C5                                                                      *)
(***************************************************************************)

\* the step in which the in-flight update r reaches update_one
WriteStep(r) ==
    /\ r.pc = "update_one"
    /\ inflight' = (inflight \ {r}) \cup {[r EXCEPT !.pc = "find_one"]}

\* C5: the write of an update of a stored contact X puts the request's phone_number,
\* text and name into X together, sets X's updated_at to the time the request read
\* (between X's created_at and now), and leaves X's id and created_at and every
\* other document as they were.
C5_UpdateFrame ==
    [][\A r \in inflight :
          (WriteStep(r) /\ InStore(r.contact_id)) =>
             /\ Len(store') = Len(store)
             /\ \A i \in 1..Len(store) :
                   IF store[i].id = r.contact_id
                   THEN /\ store'[i].phone_number = r.contact.phone_number.v
                        /\ store'[i].text = r.contact.text.v
                        /\ store'[i].name = r.contact.name.v
                        /\ store'[i].updated_at = r.updated_doc.updated_at
                        /\ store'[i].updated_at >= store[i].created_at
                        /\ store'[i].updated_at <= clock
                        /\ store'[i].id = store[i].id
                        /\ store'[i].created_at = store[i].created_at
                   ELSE store'[i] = store[i]]_vars

\* of two stored contacts, one has been updated after its creation
C5_Witness ==
    /\ Len(store) = 2
    /\ \E i \in 1..2 : store[i].updated_at > store[i].created_at

(***************************************************************************)
(* C6                                                                      *)
(***************************************************************************)

\* C6: for every validated (phone_number, text, name) the rendered payload is the six
\* lines BEGIN:VCARD, VERSION:3.0, FN:<displayName>, TEL:<phone_number>, NOTE:<text>,
\* END:VCARD joined by single newlines, the values verbatim, displayName being name
\* when it is non-empty and phone_number when it is empty, null or missing.
C6_SixLines ==
    ndef_record # None =>
        ndef_record.payload = SixLines(args.phone_number.v, args.text.v, args.name.v)

\* rendered without a name, the text holding a line break and vCard's reserved characters
C6_Witness ==
    /\ ndef_record # None
    /\ args.name.kind = "missing"
    /\ args.text.v = TextReserved

(***************************************************************************)
(* C7                                                                      *)
(***************************************************************************)

\* C7: Base64-decoding payload_base64 gives exactly the UTF-8 bytes of the rendered
\* block, and size_bytes is the number of those bytes.
C7_RoundTrip ==
    ndef_record # None =>
        /\ B64Decode(ndef_record.payload_base64) = EncodeUTF8(ndef_record.payload)
        /\ ndef_record.size_bytes = Len(B64Decode(ndef_record.payload_base64))

\* phone "+49", text "Grüße", name "Müller": the 65 bytes and the Base64 text Python gives
C7_Witness ==
    /\ ndef_record # None
    /\ ndef_record.size_bytes = 65
    /\ ndef_record.payload_base64 =
          <<81, 107, 86, 72, 83, 85, 52, 54, 86, 107, 78, 66, 85, 107, 81, 75, 86, 107, 86,
            83, 85, 48, 108, 80, 84, 106, 111, 122, 76, 106, 65, 75, 82, 107, 52, 54, 84,
            99, 79, 56, 98, 71, 120, 108, 99, 103, 112, 85, 82, 85, 119, 54, 75, 122, 81,
            53, 67, 107, 53, 80, 86, 69, 85, 54, 82, 51, 76, 68, 118, 77, 79, 102, 90, 81,
            112, 70, 84, 107, 81, 54, 86, 107, 78, 66, 85, 107, 81, 61>>

(***************************************************************************)
(* C8                                                                      *)
(***************************************************************************)

\* the characters of the six lines
BlockChars(phone_number, text, name) == Len(SixLines(phone_number, text, name))

\* C8: data_size counts bytes: for an accepted contact it is 48 plus the UTF-8 lengths
\* of displayName, phone_number and text, equal to the block's character count when
\* every character is single-byte and above it when a field has a multi-byte
\* character; a valid write is refused with 400 exactly when this count is over 504.
C8_ByteCount ==
    /\ (last.op \in {"create_contact", "update_contact"} /\ last.status = 200) =>
          LET p == last.req.phone_number.v
              t == last.req.text.v
              n == last.req.name.v
          IN  /\ last.body.data_size = BlockBytes(p, t, n)
              /\ last.body.data_size <= 504
              /\ (~HasMultiByte(p) /\ ~HasMultiByte(t) /\ ~HasMultiByte(n))
                    => last.body.data_size = BlockChars(p, t, n)
              /\ (HasMultiByte(p) \/ HasMultiByte(t) \/ HasMultiByte(n))
                    => last.body.data_size > BlockChars(p, t, n)
    /\ (last.op = "create_contact" /\ WithinFieldLimits(last.req)) =>
          (last.status = 400 <=> ReqBytes(last.req) > 504)
    /\ (last.op = "update_contact" /\ last.status \in {200, 400, 500}) =>
          (last.status = 400 <=> ReqBytes(last.req) > 504)
    /\ last.op = "get_contacts" =>
          \A i \in 1..Len(last.body) :
              last.body[i].data_size =
                  BlockBytes(last.body[i].phone_number, last.body[i].text, last.body[i].name)

\* a contact of 165 characters and exactly 504 bytes has been accepted
C8_Witness ==
    /\ last.op = "create_contact"
    /\ last.status = 200
    /\ last.body.data_size = 504
    /\ BlockChars(last.body.phone_number, last.body.text, last.body.name) = 165

(***************************************************************************)
(* C9                                                                      *)
(***************************************************************************)

\* the stored document of this id
DocOf(id) == store[CHOOSE i \in 1..Len(store) : store[i].id = id]

\* C9: the reads never refuse a document for its size: get-NDEF of a stored id is
\* answered 200 with the record of the stored values, nfc_215_compatible being false
\* exactly when size_bytes is over 504; the list is answered 200 with every stored
\* document and its derived ndef_data and data_size.
C9_ReadsNeverReject ==
    [][/\ Answers("get_contact_ndef") =>
             IF InStore(last'.id)
             THEN LET d == DocOf(last'.id)
                      rec == last'.body.ndef_record
                  IN  /\ last'.status = 200
                      /\ rec.payload = SixLines(d.phone_number, d.text, GetName(d))
                      /\ rec.size_bytes = BlockBytes(d.phone_number, d.text, GetName(d))
                      /\ rec.payload_base64
                            = call_generate_ndef_record(d.phone_number, d.text,
                                                        GetName(d)).payload_base64
                      /\ last'.body.instructions.nfc_215_compatible = ~(rec.size_bytes > 504)
             ELSE last'.status = 404
       /\ Answers("get_contacts") =>
             /\ last'.status = 200
             /\ Len(last'.body) = Len(store)
             /\ \A i \in 1..Len(store) :
                   \E j \in 1..Len(last'.body) :
                      LET d == store[i]
                          item == last'.body[j]
                      IN  /\ item.id = d.id
                          /\ item.phone_number = d.phone_number
                          /\ item.text = d.text
                          /\ item.name = GetName(d)
                          /\ item.data_size = BlockBytes(d.phone_number, d.text, GetName(d))
                          /\ item.ndef_data
                                = call_generate_ndef_record(d.phone_number, d.text,
                                                            GetName(d)).payload_base64]_vars

\* get-NDEF has returned a record of more than 504 bytes, marked incompatible
C9_Witness ==
    /\ last.op = "get_contact_ndef"
    /\ last.status = 200
    /\ last.body.ndef_record.size_bytes > 504
    /\ last.body.instructions.nfc_215_compatible = FALSE

(***************************************************************************)
(* C10                                                                     *)
(***************************************************************************)

\* C10: a create request with a missing or null required field, an empty phone_number,
\* a phone_number over 20 characters, a text over 100 or a name over 50 is answered
\* 422, never 400, before the handler runs: no id drawn, no clock read, no document
\* written.
C10_ValidationFirst ==
    [][(Answers("create_contact") /\ ~WithinFieldLimits(last'.req)) =>
          /\ last'.status = 422
          /\ store' = store
          /\ issued' = issued
          /\ clock' = clock]_vars

\* "A" * 101 as text: refused with 422 although its block is under 504 bytes
C10_Witness ==
    /\ last.op = "create_contact"
    /\ last.status = 422
    /\ last.req.text.v = TextTooLong
    /\ ReqBytes(last.req) < 504

(***************************************************************************)
(* C11                                                                     *)
(***************************************************************************)

\* the ids of the stored contacts, in the order of the collection
StoredIds(coll) == [i \in 1..Len(coll) |-> coll[i].id]

\* C11: no two stored contacts share an id and every stored id is one uuid4() gave
\* out; a step leaves the ids of the stored contacts as they are, or drops one
\* contact, or adds one contact under an id that uuid4() had not given out before;
\* and an id that has been given out and is not stored (its contact was deleted, or
\* its create was refused) is not stored after the step either, whatever updates
\* for it are in flight.
C11_IdsStable ==
    [][/\ \A i, j \in 1..Len(store') : store'[i].id = store'[j].id => i = j
       /\ \A i \in 1..Len(store') : store'[i].id \in issued'
       /\ \/ StoredIds(store') = StoredIds(store)
          \/ \E id \in Ids \ issued : StoredIds(store') = Append(StoredIds(store), id)
          \/ \E i \in 1..Len(store) :
                StoredIds(store') = SubSeq(StoredIds(store), 1, i - 1)
                                     \o SubSeq(StoredIds(store), i + 1, Len(store))
       /\ \A id \in issued : ~InStore(id) =>
             \A i \in 1..Len(store') : store'[i].id # id]_vars

\* a contact was deleted while an update for it was in flight, and the update has
\* made its write
C11_Witness ==
    /\ last.op = "delete_contact" /\ last.status = 200
    /\ \E r \in inflight :
          /\ r.pc = "find_one"
          /\ r.contact_id = last.id
          /\ r.rid < last.rid
          /\ ~InStore(r.contact_id)

(***************************************************************************)
(* C12                                                                     *)
(***************************************************************************)

\* the three values a document holds, and the three a request body carries
StoredTriple(doc) == <<doc.phone_number, doc.text, doc.name>>
SentTriple(req) == <<req.phone_number.v, req.text.v, req.name.v>>

\* the in-flight updates of this id whose write is this step
WritersOf(id) == {r \in inflight : r.contact_id = id /\ WriteStep(r)}

\* C12: for a contact stored before and after a step: if the step is the write of
\* an update of its id, the contact then holds exactly that request's phone_number,
\* text and name, whatever other updates of the id are in flight or have written
\* before; any other step (a delete of another id, an update starting or returning)
\* leaves the whole document as it was.  So the stored triple is always the
\* triple of the write that reached the store last, and it is one request's triple
\* (or the one it was created with), never a mix.
C12_LastWriteWins ==
    [][\A id \in Ids :
          (InStore(id) /\ \E i \in 1..Len(store') : store'[i].id = id) =>
             LET before == DocOf(id)
                 after == store'[CHOOSE i \in 1..Len(store') : store'[i].id = id]
             IN  /\ IF WritersOf(id) # {}
                    THEN \E r \in WritersOf(id) : StoredTriple(after) = SentTriple(r.contact)
                    ELSE after = before
                 /\ \E req \in ConcurrentBodies : StoredTriple(after) = SentTriple(req)]_vars

\* two updates of contact 1 with different bodies are in flight together and both
\* have written, while contact 2 was deleted after both had started
C12_Witness ==
    /\ \E r1, r2 \in inflight :
          /\ r1.contact_id = 1 /\ r2.contact_id = 1
          /\ r1.pc = "find_one" /\ r2.pc = "find_one"
          /\ SentTriple(r1.contact) # SentTriple(r2.contact)
          /\ last.rid > r1.rid /\ last.rid > r2.rid
    /\ last.op = "delete_contact" /\ last.id = 2 /\ last.status = 200
    /\ InStore(1)

(***************************************************************************)
(* C13                                                                     *)
(***************************************************************************)

\* C13: every 200 response of an update carries the payload and the size of the
\* phone_number, text and name that the same response carries.
C13_ResponseConsistent ==
    (last.op = "update_contact" /\ last.status = 200) =>
        /\ last.body.data_size =
              BlockBytes(last.body.phone_number, last.body.text, last.body.name)
        /\ last.body.ndef_data =
              call_generate_ndef_record(last.body.phone_number, last.body.text,
                                        last.body.name).payload_base64

(***************************************************************************)
(* C14                                                                     *)
(***************************************************************************)

\* the step in which the in-flight update r makes its second find_one and answers
ReturnStep(r) ==
    /\ r.pc = "find_one"
    /\ inflight' = inflight \ {r}
    /\ last'.rid = r.rid

\* C14: every answer to an update is 200, 422, 400 or 404, and an update that finds
\* its contact gone at its second find_one answers 404.
C14_NoServerError ==
    [][/\ last'.op = "update_contact" => last'.status \in {200, 422, 400, 404}
       /\ \A r \in inflight :
             (ReturnStep(r) /\ ~InStore(r.contact_id)) => last'.status = 404]_vars

====
